---- MODULE Spec2Model ----
(***************************************************************************)
(* Length_Filter.py and Length_Filter2.py of 16S-RDS: a FASTQ file is read *)
(* record by record through two chained generator expressions (highs,      *)
(* lows) and the surviving records are written with SeqIO.write.           *)
(* One run of either script is one behaviour: the command line and the     *)
(* input file are fixed in Init, every statement of the script is a step.  *)
(***************************************************************************)
EXTENDS Integers, Sequences, FiniteSets, TLC

\* ------------------------------------------------------------ bounds
\* Most records in an input file.
MaxRecs == 2
\* Longest sequence line of a record.
MaxLen == 2

VARIABLES
    script,          \* which of the two scripts runs
    argv,            \* the command line
    inputFile,       \* the four-line units of the input file
    INPUT_FILE, OUTPUT_FILE, LOWER, UPPER,   \* the scripts' globals
    input_iterator,  \* "unbound", or the reader SeqIO.parse was given
    in_handle,       \* the file object given to SeqIO.parse
    output_handle,   \* "unbound", "open" or "closed"
    out_mode,        \* the writer output_handle is: "none", "plain", "gzip"
    outFile,         \* the four-line units written to the output so far
    pos,             \* units input_iterator has consumed
    held,            \* records read and not yet dropped or written
    pc,              \* position in the script
    outcome,         \* "running", "completed", or how the process died
    exitStatus,      \* the process's exit status, -1 while it runs
    stdout, stderr,  \* what was printed, in order
    run,             \* 1: the first invocation, 2: the filter run on its output
    firstOut         \* the output of the first invocation (run 2 only)

vars == <<script, argv, inputFile, INPUT_FILE, OUTPUT_FILE, LOWER, UPPER,
          input_iterator, in_handle, output_handle, out_mode, outFile, pos,
          held, pc, outcome, exitStatus, stdout, stderr, run, firstOut>>

\* ------------------------------------------------------------ paths
\* A path is its stem followed by its dot-suffixes: reads.fastq.gz is
\* <<"reads", ".fastq", ".gz">>.
endswith(path, suffix) ==
    /\ Len(path) >= Len(suffix)
    /\ SubSeq(path, Len(path) - Len(suffix) + 1, Len(path)) = suffix

PlainSuffix == <<".fastq">>
GzSuffix == <<".fastq", ".gz">>

InputPaths == { <<"reads", ".fastq">>, <<"reads", ".fastq", ".gz">>, <<"reads", ".fq">> }
OutputPaths == { <<"out", ".fastq">>, <<"out", ".fastq", ".gz">>, <<"out", ".txt">> }

\* ------------------------------------------------------------ FASTQ codec
Rep(x, n) == [i \in 1..n |-> x]

\* The i-th unit of a file: title line "@i", sequence line of n letters,
\* "+" line, quality line of q symbols.
Unit(i, n, q) ==
    [marker |-> "@", id |-> i, seq |-> Rep("A", n), plus |-> "+", qual |-> Rep("I", q)]

\* SeqIO.parse(handle, "fastq") on one unit: a record, or ValueError.
WellFormed(unit) ==
    /\ unit.marker = "@"
    /\ unit.plus = "+"
    /\ Len(unit.seq) = Len(unit.qual)

Parse(unit) == [id |-> unit.id, seq |-> unit.seq, letter_annotations |-> unit.qual]

\* SeqIO.write(..., "fastq") on one record.
Serialize_truncating(record) ==
    [marker |-> "@", id |-> record.id,
     seq |-> SubSeq(record.seq, 1, Len(record.seq) - 1),
     plus |-> "+",
     qual |-> SubSeq(record.letter_annotations, 1, Len(record.letter_annotations) - 1)]

Serialize(record) ==
    [marker |-> "@", id |-> record.id, seq |-> record.seq, plus |-> "+",
     qual |-> record.letter_annotations]

\* ------------------------------------------------------------ inputs
\* Files of exactly k units; a malformed unit has one quality symbol too many.
FilesOfLen(k) ==
    { [i \in 1..k |-> Unit(i, lens[i], IF bad[i] THEN lens[i] + 1 ELSE lens[i])] :
        lens \in [1..k -> 0..MaxLen], bad \in [1..k -> BOOLEAN] }

Files(n) == UNION { FilesOfLen(k) : k \in 0..n }

Scripts == {"Length_Filter", "Length_Filter2"}

Cutoffs == 0..(MaxLen + 1)

\* given: how many of <input> <output> <lower> <upper> are on the command line
\* (argv[1..4] of Length_Filter, -i -o -l -u of Length_Filter2);
\* nonint: the bounds whose text is not an integer.
CommandLines(s) ==
    [input : InputPaths, output : OutputPaths, lower : Cutoffs, upper : Cutoffs,
     gzip : IF s = "Length_Filter2" THEN BOOLEAN ELSE {FALSE},
     given : 0..4, nonint : SUBSET {"lower", "upper"}]

WellFormedCommandLine(a) == a.given = 4 /\ a.nonint = {}

\* The command lines paired with every input file; the others are paired
\* with the files of at most one unit.
FilterCommandLines(s) ==
    { a \in CommandLines(s) :
        /\ WellFormedCommandLine(a)
        /\ a.input = <<"reads", ".fastq">>
        /\ a.output = <<"out", ".fastq">> }

IOCommandLines(s) ==
    { a \in CommandLines(s) : a.lower = 0 /\ a.upper = MaxLen + 1 }

Init ==
    /\ script \in Scripts
    /\ \/ argv \in FilterCommandLines(script) /\ inputFile \in Files(MaxRecs)
       \/ argv \in IOCommandLines(script) /\ inputFile \in Files(1)
    /\ INPUT_FILE = <<>> /\ OUTPUT_FILE = <<>> /\ LOWER = 0 /\ UPPER = 0
    /\ input_iterator = "unbound"
    /\ in_handle = "unbound"
    /\ output_handle = "unbound"
    /\ out_mode = "none"
    /\ outFile = <<>>
    /\ pos = 0
    /\ held = <<>>
    /\ pc = "parse_args"
    /\ outcome = "running"
    /\ exitStatus = -1
    /\ stdout = <<>> /\ stderr = <<>>
    /\ run = 1
    /\ firstOut = <<>>

\* ------------------------------------------------------------ the script
Die(how, status, err) ==
    /\ pc' = "exit"
    /\ outcome' = how
    /\ exitStatus' = status
    /\ stderr' = stderr \o err

\* Length_Filter.py 6-10: argv[1], argv[2], int(argv[3]), int(argv[4]) in
\* this order; the first one to fail decides the exception.
ArgvException(a) ==
    IF a.given < 3 THEN "IndexError"
    ELSE IF "lower" \in a.nonint THEN "ValueError"
    ELSE IF a.given < 4 THEN "IndexError"
    ELSE IF "upper" \in a.nonint THEN "ValueError"
    ELSE "none"

\* Length_Filter2.py 14-20: argparse rejects a missing required option and
\* a value type=int cannot convert.
ArgparseRejects(a) == a.given < 4 \/ a.nonint # {}

BindGlobals ==
    /\ INPUT_FILE' = argv.input
    /\ OUTPUT_FILE' = argv.output
    /\ LOWER' = argv.lower
    /\ UPPER' = argv.upper

ParseArgs ==
    /\ pc = "parse_args"
    /\ IF script = "Length_Filter"
       THEN CASE ArgvException(argv) = "IndexError" ->
                   \* except IndexError: print usage; raise SystemExit
                   /\ INPUT_FILE' = IF argv.given >= 1 THEN argv.input ELSE INPUT_FILE
                   /\ OUTPUT_FILE' = IF argv.given >= 2 THEN argv.output ELSE OUTPUT_FILE
                   /\ LOWER' = IF argv.given >= 3 THEN argv.lower ELSE LOWER
                   /\ UNCHANGED UPPER
                   /\ stdout' = Append(stdout, "usage")
                   /\ Die("SystemExit", 0, <<>>)
              [] ArgvException(argv) = "ValueError" ->
                   \* int() raises, nothing catches it
                   /\ INPUT_FILE' = argv.input
                   /\ OUTPUT_FILE' = argv.output
                   /\ LOWER' = IF "lower" \in argv.nonint THEN LOWER ELSE argv.lower
                   /\ UNCHANGED UPPER
                   /\ UNCHANGED stdout
                   /\ Die("ValueError_int", 1, <<"traceback">>)
              [] OTHER ->
                   /\ BindGlobals
                   /\ pc' = "resolve_input"
                   /\ UNCHANGED <<outcome, exitStatus, stdout, stderr>>
       ELSE IF ArgparseRejects(argv)
            THEN /\ UNCHANGED <<INPUT_FILE, OUTPUT_FILE, LOWER, UPPER, stdout>>
                 /\ Die("argparse_error", 2, <<"usage", "error">>)
            ELSE /\ BindGlobals
                 /\ pc' = "resolve_input"
                 /\ UNCHANGED <<outcome, exitStatus, stdout, stderr>>
    /\ UNCHANGED <<script, argv, inputFile, input_iterator, in_handle,
                   output_handle, out_mode, outFile, pos, held, run, firstOut>>

\* Length_Filter2.py 27-30 (if / elif, no else); Length_Filter.py 16.
Reader(s, path) ==
    IF s = "Length_Filter" THEN "plain"
    ELSE IF endswith(path, PlainSuffix) THEN "plain"
    ELSE IF endswith(path, GzSuffix) THEN "gzip"
    ELSE "unbound"

ResolveInput ==
    /\ pc = "resolve_input"
    /\ input_iterator' = Reader(script, INPUT_FILE)
    /\ in_handle' = IF Reader(script, INPUT_FILE) = "unbound" THEN in_handle ELSE "open"
    /\ pc' = "generators"
    /\ UNCHANGED <<script, argv, inputFile, INPUT_FILE, OUTPUT_FILE, LOWER, UPPER,
                   output_handle, out_mode, outFile, pos, held, outcome,
                   exitStatus, stdout, stderr, run, firstOut>>

\* highs = (... for record in input_iterator ...): the name is evaluated when
\* the generator expression is created.
MakeGenerators ==
    /\ pc = "generators"
    /\ IF input_iterator = "unbound"
       THEN Die("NameError", 1, <<"traceback">>)
       ELSE /\ pc' = "resolve_output"
            /\ UNCHANGED <<outcome, exitStatus, stderr>>
    /\ UNCHANGED <<script, argv, inputFile, INPUT_FILE, OUTPUT_FILE, LOWER, UPPER,
                   input_iterator, in_handle, output_handle, out_mode, outFile,
                   pos, held, stdout, run, firstOut>>

\* Length_Filter2.py 35-41; Length_Filter.py 23.
Corrects(s, gz, path) == s = "Length_Filter2" /\ gz /\ endswith(path, PlainSuffix)

OutputPath(s, gz, path) == IF Corrects(s, gz, path) THEN path \o <<".gz">> ELSE path

Writer(s, gz, path) == IF s = "Length_Filter2" /\ gz THEN "gzip" ELSE "plain"

ResolveOutput ==
    /\ pc = "resolve_output"
    /\ stdout' = IF Corrects(script, argv.gzip, OUTPUT_FILE)
                 THEN Append(stdout, "warning") ELSE stdout
    /\ OUTPUT_FILE' = OutputPath(script, argv.gzip, OUTPUT_FILE)
    /\ out_mode' = Writer(script, argv.gzip, OUTPUT_FILE)
    /\ output_handle' = "open"
    /\ outFile' = <<>>
    /\ pc' = "pull"
    /\ UNCHANGED <<script, argv, inputFile, INPUT_FILE, LOWER, UPPER,
                   input_iterator, in_handle, pos, held, outcome, exitStatus,
                   stderr, run, firstOut>>

\* ------------------------------------------------------------ the pass
\* The conditions of the two generator expressions.
keepHigh_inclusive(record) == Len(record.seq) >= LOWER
keepHigh_flipped(record) == Len(record.seq) < LOWER

keepHigh(record) == Len(record.seq) > LOWER

keepLow(record) == Len(record.seq) < UPPER

\* Where control goes once a generator has evaluated its condition: a record
\* that passes is yielded to the consumer (highs to lows, lows to
\* SeqIO.write); one that fails makes the generator ask its source again.
resume_eager(stage, passed) ==
    IF stage = "highs" THEN "pull"
    ELSE IF passed THEN "write" ELSE "pull"

resume(stage, passed) ==
    IF stage = "highs" THEN (IF passed THEN "lows" ELSE "pull")
    ELSE IF passed THEN "write" ELSE "pull"

\* What input_iterator.next() does with the next unit of the file.
next_lenient(unit) == "record"

next(unit) == IF WellFormed(unit) THEN "record" ELSE "ValueError"

current == held[Len(held)]
others == SubSeq(held, 1, Len(held) - 1)

\* SeqIO.write asks lows, lows asks highs, highs asks input_iterator.
Pull ==
    /\ pc = "pull"
    /\ IF pos = Len(inputFile)
       THEN \* StopIteration ends highs, lows and SeqIO.write's loop
            /\ pc' = "close"
            /\ UNCHANGED <<pos, held, outcome, exitStatus, stderr>>
       ELSE /\ pos' = pos + 1
            /\ IF next(inputFile[pos + 1]) = "record"
               THEN /\ held' = Append(held, Parse(inputFile[pos + 1]))
                    /\ pc' = "highs"
                    /\ UNCHANGED <<outcome, exitStatus, stderr>>
               ELSE /\ UNCHANGED held
                    /\ Die("ValueError_fastq", 1, <<"traceback">>)
    /\ UNCHANGED <<script, argv, inputFile, INPUT_FILE, OUTPUT_FILE, LOWER, UPPER,
                   input_iterator, in_handle, output_handle, out_mode, outFile,
                   stdout, run, firstOut>>

\* highs = (record for record in input_iterator if len(record.seq) > LOWER)
Highs ==
    /\ pc = "highs"
    /\ pc' = resume("highs", keepHigh(current))
    /\ held' = IF keepHigh(current) THEN held ELSE others
    /\ UNCHANGED <<script, argv, inputFile, INPUT_FILE, OUTPUT_FILE, LOWER, UPPER,
                   input_iterator, in_handle, output_handle, out_mode, outFile,
                   pos, outcome, exitStatus, stdout, stderr, run, firstOut>>

\* lows = (record for record in highs if len(record.seq) < UPPER)
Lows ==
    /\ pc = "lows"
    /\ pc' = resume("lows", keepLow(current))
    /\ held' = IF keepLow(current) THEN held ELSE others
    /\ UNCHANGED <<script, argv, inputFile, INPUT_FILE, OUTPUT_FILE, LOWER, UPPER,
                   input_iterator, in_handle, output_handle, out_mode, outFile,
                   pos, outcome, exitStatus, stdout, stderr, run, firstOut>>

\* SeqIO.write(lows, output_handle, "fastq"): one record of its loop.
WriteRecord ==
    /\ pc = "write"
    /\ outFile' = Append(outFile, Serialize(current))
    /\ held' = others
    /\ pc' = "pull"
    /\ UNCHANGED <<script, argv, inputFile, INPUT_FILE, OUTPUT_FILE, LOWER, UPPER,
                   input_iterator, in_handle, output_handle, out_mode, pos,
                   outcome, exitStatus, stdout, stderr, run, firstOut>>

\* output_handle.close(), the last statement of both scripts.
Close ==
    /\ pc = "close"
    /\ output_handle' = "closed"
    /\ pc' = "exit"
    /\ outcome' = "completed"
    /\ exitStatus' = 0
    /\ UNCHANGED <<script, argv, inputFile, INPUT_FILE, OUTPUT_FILE, LOWER, UPPER,
                   input_iterator, in_handle, out_mode, outFile, pos, held,
                   stdout, stderr, run, firstOut>>

\* The same command line again, on the file the first invocation wrote.
Rerun ==
    /\ pc = "exit" /\ outcome = "completed" /\ run = 1
    /\ run' = 2
    /\ firstOut' = outFile
    /\ inputFile' = outFile
    /\ INPUT_FILE' = <<>> /\ OUTPUT_FILE' = <<>> /\ LOWER' = 0 /\ UPPER' = 0
    /\ input_iterator' = "unbound"
    /\ in_handle' = "unbound"
    /\ output_handle' = "unbound"
    /\ out_mode' = "none"
    /\ outFile' = <<>>
    /\ pos' = 0
    /\ held' = <<>>
    /\ pc' = "parse_args"
    /\ outcome' = "running"
    /\ exitStatus' = -1
    /\ stdout' = <<>> /\ stderr' = <<>>
    /\ UNCHANGED <<script, argv>>

Next ==
    \/ ParseArgs
    \/ ResolveInput
    \/ MakeGenerators
    \/ ResolveOutput
    \/ Pull
    \/ Highs
    \/ Lows
    \/ WriteRecord
    \/ Close
    \/ Rerun

Spec == Init /\ [][Next]_vars

\* ------------------------------------------------------------ properties
Completed == pc = "exit" /\ outcome = "completed"

\* The length predicate of the specification, on the bounds as typed.
Between(unit) == argv.lower < Len(unit.seq) /\ Len(unit.seq) < argv.upper

AllWellFormed == \A i \in 1..Len(inputFile) : WellFormed(inputFile[i])

HasBad == ~AllWellFormed

FirstBad ==
    CHOOSE k \in 1..Len(inputFile) :
        /\ ~WellFormed(inputFile[k])
        /\ \A j \in 1..(k - 1) : WellFormed(inputFile[j])

Recognized(path) == endswith(path, PlainSuffix) \/ endswith(path, GzSuffix)

\* C1: the output of a completed run is exactly the input's records with
\* lower < len(sequence) < upper, each once and in input order; a record whose
\* length equals lower or upper is absent.
C1_OutputIsFilteredSubsequence ==
    Completed =>
        /\ outFile = SelectSeq(inputFile, Between)
        /\ \A i \in 1..Len(outFile) :
              Len(outFile[i].seq) # argv.lower /\ Len(outFile[i].seq) # argv.upper

\* A completed first run that kept a record and dropped one lying exactly on
\* a bound.
C1_Witness ==
    /\ Completed /\ run = 1
    /\ Len(outFile) >= 1
    /\ \E i \in 1..Len(inputFile) :
          Len(inputFile[i].seq) \in {argv.lower, argv.upper}

\* C2 (as claimed): an input path with neither suffix is never bound to a
\* reader, none of its records is parsed, and the run ends in an error.
C2_UnrecognizedInputFails ==
    (WellFormedCommandLine(argv) /\ ~Recognized(argv.input)) =>
        /\ input_iterator = "unbound"
        /\ pos = 0
        /\ (pc = "exit" => outcome # "completed" /\ exitStatus # 0)

\* C3 (as claimed): with the gzip flag, once the output is open: a
\* destination without the compressed suffix has had it appended, with a
\* warning, and is written compressed; one that has it is left alone, silently.
C3_SuffixAppendedForEveryName ==
    (argv.gzip /\ output_handle # "unbound") =>
        IF endswith(argv.output, GzSuffix)
        THEN OUTPUT_FILE = argv.output /\ stdout = <<>> /\ out_mode = "gzip"
        ELSE /\ endswith(OUTPUT_FILE, GzSuffix)
             /\ SubSeq(OUTPUT_FILE, 1, Len(argv.output)) = argv.output
             /\ stdout = <<"warning">>
             /\ out_mode = "gzip"

\* C4 (as claimed): the output is a compressing writer iff the flag is set or
\* the destination ends in the compressed suffix.
C4_CompressedByFlagOrSuffix ==
    output_handle # "unbound" =>
        (out_mode = "gzip" <=> (argv.gzip \/ endswith(argv.output, GzSuffix)))

\* C5 (as claimed): when a run has ended, on completion or on a parse error,
\* no handle it opened is still open.
C5_HandlesReleasedOnExit ==
    (pc = "exit" /\ outcome \in {"completed", "ValueError_fastq"}) =>
        /\ in_handle # "open"
        /\ output_handle # "open"

\* C6 (as claimed): a missing argument ends the process with usage text on
\* standard error, a non-zero status and no file opened; a non-integer bound
\* is reported the same way.
C6_UsageErrorOnBadArguments ==
    (pc = "exit" /\ ~WellFormedCommandLine(argv)) =>
        /\ \E i \in 1..Len(stderr) : stderr[i] = "usage"
        /\ exitStatus # 0
        /\ in_handle = "unbound"
        /\ output_handle = "unbound"

\* C7: a malformed unit at position k ends the run in an error when it is
\* read; the output is then exactly the kept records among the first k-1,
\* and nothing after position k is ever read or written.
C7_FormatErrorAbortsPass ==
    HasBad =>
        /\ pos <= FirstBad
        /\ \A i \in 1..Len(outFile) : outFile[i].id < FirstBad
        /\ pos = FirstBad =>
              /\ pc = "exit"
              /\ outcome = "ValueError_fastq"
              /\ exitStatus # 0
              /\ outFile = SelectSeq(SubSeq(inputFile, 1, FirstBad - 1), Between)

\* The second unit is malformed and the first was written before the error.
C7_Witness ==
    /\ outcome = "ValueError_fastq"
    /\ pos = 2
    /\ Len(outFile) = 1

\* C8 (as claimed): with lower >= upper every run on every input completes
\* without error and writes nothing.
C8_EmptyOutputOnEveryInput ==
    (WellFormedCommandLine(argv) /\ Reader(script, argv.input) # "unbound"
        /\ argv.lower >= argv.upper) =>
        /\ outFile = <<>>
        /\ outcome \in {"running", "completed"}

\* C8 (amended): with lower >= upper, a run on an input of well-formed
\* records only, read from a path the script binds a reader to, never errs,
\* ends completed with status 0, and writes no record.
C8_EmptyOutputOnWellFormedInput ==
    (WellFormedCommandLine(argv) /\ Reader(script, argv.input) # "unbound"
        /\ AllWellFormed /\ argv.lower >= argv.upper) =>
        /\ outFile = <<>>
        /\ outcome \in {"running", "completed"}
        /\ (pc = "exit" => outcome = "completed" /\ exitStatus = 0)

\* A completed run with lower >= upper on two well-formed records, one of
\* which passed the lower-bound stage.
C8_Witness ==
    /\ Completed /\ run = 1
    /\ argv.lower >= argv.upper
    /\ Len(inputFile) = 2
    /\ AllWellFormed
    /\ \E i \in 1..2 : Len(inputFile[i].seq) > argv.lower

C10_SingleForwardPass ==
    [][ (run' = run) =>
          /\ pos' = pos \/ (pos' = pos + 1 /\ held = <<>>)
          /\ Len(held') <= 1
          /\ (outcome' = "completed" => pos' = Len(inputFile)) ]_vars

\* The second record is about to be written after the first one was.
C10_Witness ==
    /\ pc = "write"
    /\ pos = 2
    /\ Len(held) = 1
    /\ Len(outFile) = 1

====
